---- MODULE Spec2Model ----
(***************************************************************************)
(* Feed pagination and fetch coordination of the Newsly front end          *)
(* (src/src/App.tsx).  The React component App is modelled as a state      *)
(* machine: its useState cells are the variables, every event handler and  *)
(* every promise continuation is one action, and the render that React     *)
(* commits after a handler (new closures for loadMoreNews and for the      *)
(* IntersectionObserver callback, the effects that depend on the changed   *)
(* cells) is part of that action.  ChatModal and DetailedNewsModal         *)
(* (src/src/components/DetailedNewsModal.tsx) are modelled with the cells  *)
(* of App that open them and the requests their effects send.              *)
(***************************************************************************)
EXTENDS Integers, Sequences, FiniteSets, TLC

\* ---------------------------------------------------------------- bounds
MaxCalls == 2      \* network requests the client issues after it is mounted
MaxSessionCalls == 3   \* the same, in the runs of one signed-in session

\* ------------------------------------------------------ program constants
DedupWindowMs == 5000

NewsSection ==
    {"for-you", "world", "sports", "india", "education", "entertainment", "trending"}

\* The sections the user opens. The code treats "india", "education",
\* "entertainment" and "trending" exactly as it treats "sports": no line of it
\* names them.
Visited == {"for-you", "world", "sports"}

NoUser == <<>>                       \* userId === null
GuestUser(t) == <<"guest_", t>>      \* `guest_${Date.now()}`
GoogleUser == <<"user_", 0>>         \* data.user.user_id of the Google account

StartsWithGuest(u) == Len(u) > 0 /\ u[1] = "guest_"

NoError      == "null"
GuestMsg     == "Sign in with Google to access personalized For You news."
FallbackMsg  == "Failed to load news. Showing fallback content."
GoogleMsg    == "Google authentication failed. Please try again."

Item(id, section) == [id |-> id, section |-> section]

mockNews == << Item(<<"mock", 0, 1>>, "world"), Item(<<"mock", 0, 2>>, "for-you") >>

\* The batch the remote holds for (section, page): one item per page, its id
\* unlike that of every other page of the section. The personalised feed is made
\* of the articles of the section feeds in an order of its own: its page p + 1
\* holds the article that is on page p of "world".
RemoteBatch(section, page) ==
    IF section = "for-you"
    THEN << Item(<<"world", page - 1, 1>>, "world") >>
    ELSE << Item(<<section, page, 1>>, section) >>

\* What the remote can answer to GET /api/news.
\* "reject": fetch rejects or the body is no JSON; "http_error": a non-2xx status
\* with a JSON object as body; "not_array": a 2xx status with a JSON object as body.
Responses == {"items", "empty", "reject", "http_error", "not_array"}

VARIABLES
    userId, activeSection, news, isLoading, isLoadingNews, isLoadingMore,
    error, hasMoreNews, currentPage, lastFetchTime,     \* useState cells of App
    memoLoadMore,      \* the memoised loadMoreNews closure (useCallback)
    observer,          \* the IntersectionObserver of the last effect run
    inflight,          \* fetchNews calls suspended at their await
    clock,             \* the latest reading of Date.now()
    visible,           \* the sentinel intersects the viewport
    ioPending,         \* the observer has a notification queued
    crashed,           \* a render threw: React unmounted the tree
    calls,             \* network requests the client may still issue
    lastOp,            \* the handler that ran last
    emptySeen,         \* an empty batch was absorbed for the feed since its reset
    runs,              \* the resetAndFetchNews runs completed back to back
    attempted,         \* per `${section}_${page}`, the last load-more fetch that ended
    isChatOpen, selectedNewsId,                     \* useState cells of App
    isDetailedModalOpen, selectedDetailedNewsId,    \* useState cells of App
    chat,              \* the useState cells of ChatModal
    detailed,          \* the cells and hasFetchedRef of DetailedNewsModal
    streams            \* requests of the two modals that have not ended

cells == <<userId, activeSection, news, isLoading, isLoadingNews, isLoadingMore,
           error, hasMoreNews, currentPage, lastFetchTime>>

vars == <<userId, activeSection, news, isLoading, isLoadingNews, isLoadingMore,
          error, hasMoreNews, currentPage, lastFetchTime, memoLoadMore, observer,
          inflight, clock, visible, ioPending, crashed, calls, lastOp,
          emptySeen, runs, attempted, isChatOpen, selectedNewsId,
          isDetailedModalOpen, selectedDetailedNewsId, chat, detailed, streams>>

modalVars == <<isChatOpen, selectedNewsId, isDetailedModalOpen,
               selectedDetailedNewsId, chat, detailed, streams>>

\* What the handlers of the two modals leave alone.
feedVars == <<cells, memoLoadMore, observer, inflight, clock, visible, ioPending,
              crashed, emptySeen, runs, attempted>>

\* The useState cells as one record, so that a handler is a function on it.
S == [userId |-> userId, activeSection |-> activeSection, news |-> news,
      isLoading |-> isLoading, isLoadingNews |-> isLoadingNews,
      isLoadingMore |-> isLoadingMore, error |-> error,
      hasMoreNews |-> hasMoreNews, currentPage |-> currentPage,
      lastFetchTime |-> lastFetchTime]

SetCells(n) ==
    /\ userId' = n.userId
    /\ activeSection' = n.activeSection
    /\ news' = n.news
    /\ isLoading' = n.isLoading
    /\ isLoadingNews' = n.isLoadingNews
    /\ isLoadingMore' = n.isLoadingMore
    /\ error' = n.error
    /\ hasMoreNews' = n.hasMoreNews
    /\ currentPage' = n.currentPage
    /\ lastFetchTime' = n.lastFetchTime

\* ------------------------------------------------------------- rendering
filteredNews(st) ==
    SelectSeq(st.news,
              LAMBDA item : st.activeSection = "for-you" \/ item.section = st.activeSection)

\* The <div ref={loadMoreRef}> is part of the tree.
SentinelMounted(st) ==
    /\ st.userId # NoUser
    /\ ~st.isLoadingNews
    /\ Len(filteredNews(st)) > 0

\* The "Load More Stories" button is part of the tree.
LoadMoreButton(st) == SentinelMounted(st) /\ ~st.isLoadingMore /\ st.hasMoreNews

\* What loadMoreNews, and the fetchNews it calls, read from the render that made it.
Closure(st) ==
    [activeSection |-> st.activeSection, currentPage |-> st.currentPage,
     hasMoreNews |-> st.hasMoreNews, isLoadingMore |-> st.isLoadingMore,
     isLoadingNews |-> st.isLoadingNews, lastFetchTime |-> st.lastFetchTime,
     userId |-> st.userId]

LoadMoreDeps(c) ==
    <<c.activeSection, c.currentPage, c.hasMoreNews, c.isLoadingMore, c.isLoadingNews>>

\* useCallback: the closure is replaced when one of its dependencies changed.
UseCallback(cb, st) ==
    IF LoadMoreDeps(cb) = LoadMoreDeps(Closure(st)) THEN cb ELSE Closure(st)

ObserverDeps(c) == <<c.hasMoreNews, c.isLoadingMore, c.isLoadingNews>>

\* The observer effect: disconnect, make a new observer whose callback holds this
\* render's flags and loadMoreNews, observe the sentinel if it is mounted.
NewObserver(cb, st) ==
    [hasMoreNews |-> st.hasMoreNews, isLoadingMore |-> st.isLoadingMore,
     isLoadingNews |-> st.isLoadingNews, loadMoreNews |-> cb,
     observing |-> SentinelMounted(st)]

\* One committed render of App with cells st: the closures, the observer and
\* its queue after it. r is [cb, obs, vis, pend] before the render.
Render(r, st) ==
    LET cb == UseCallback(r.cb, st)
        rerun == ObserverDeps(r.obs) # ObserverDeps(st)
        obs == IF rerun THEN NewObserver(cb, st)
               ELSE [r.obs EXCEPT !.observing = @ /\ SentinelMounted(st)]
    IN [cb |-> cb, obs |-> obs,
        vis |-> r.vis /\ SentinelMounted(st),
        pend |-> IF rerun THEN obs.observing ELSE r.pend /\ obs.observing]

Rendered == [cb |-> memoLoadMore, obs |-> observer, vis |-> visible, pend |-> ioPending]

SetRendered(r) ==
    /\ memoLoadMore' = r.cb
    /\ observer' = r.obs
    /\ visible' = r.vis
    /\ ioPending' = r.pend

\* ------------------------------------------------------------ fetchNews
Key(section, page) == <<section, page>>          \* `${section}_${page}`

\* lastFetchTime[key], undefined (0 here) when the record has no such key.
Lookup(record, key) == IF key \in DOMAIN record THEN record[key] ELSE 0

\* { ...prev, [key]: value }
Spread(prev, key, value) ==
    [k \in DOMAIN prev \cup {key} |-> IF k = key THEN value ELSE prev[k]]

\* A fetchNews that never raises its in-flight flag.
SetLoadingNever(st, isInitial, v) == st

SetLoading(st, isInitial, v) ==
    IF isInitial THEN [st EXCEPT !.isLoadingNews = v]
                 ELSE [st EXCEPT !.isLoadingMore = v]

\* A dedup return that does not look at isInitial.
SuppressedAlsoInitial(c, section, page, isInitial, now) ==
    LET lastFetch == Lookup(c.lastFetchTime, Key(section, page))
    IN lastFetch # 0 /\ now - lastFetch < DedupWindowMs

\* App.tsx 132-134: the condition of the dedup return.
Suppressed(c, section, page, isInitial, now) ==
    LET lastFetch == Lookup(c.lastFetchTime, Key(section, page))
    IN ~isInitial /\ lastFetch # 0 /\ now - lastFetch < DedupWindowMs

\* A fetchNews without the guest return.
GuestBlockedNever(c, section) == FALSE

\* App.tsx 144: the condition of the guest return.
GuestBlocked(c, section) == section = "for-you" /\ StartsWithGuest(c.userId)

Request(c, section, page, isInitial, now) ==
    [section |-> section, page |-> page, isInitial |-> isInitial, now |-> now,
     userId |-> c.userId]

\* fetchNews up to its await, called from a render whose closure is c, on cells
\* st: the cells after it and the request it suspends on, if any.
fetchNews(c, st, section, page, isInitial, now) ==
    LET s1 == [SetLoading(st, isInitial, TRUE) EXCEPT !.error = NoError]
    IN IF Suppressed(c, section, page, isInitial, now)
       THEN [st |-> SetLoading(s1, isInitial, FALSE), req |-> <<>>, how |-> "suppressed"]
       ELSE IF GuestBlocked(c, section)
       THEN [st |-> SetLoading([s1 EXCEPT !.news = <<>>, !.hasMoreNews = FALSE,
                                          !.error = GuestMsg], isInitial, FALSE),
             req |-> <<>>, how |-> "forbidden"]
       ELSE [st |-> s1, req |-> <<Request(c, section, page, isInitial, now)>>,
             how |-> "network"]

\* A resetAndFetchNews that keeps the list until the first page arrives.
ResetCellsKeepsList(st) ==
    [st EXCEPT !.currentPage = 1, !.hasMoreNews = TRUE, !.error = NoError]

ResetCells(st) ==
    [st EXCEPT !.news = <<>>, !.currentPage = 1, !.hasMoreNews = TRUE, !.error = NoError]

resetAndFetchNews(c, st, section, now) ==
    fetchNews(c, ResetCells(st), section, 1, TRUE, now)

LoadMoreGuard(c) == ~c.hasMoreNews \/ c.isLoadingMore \/ c.isLoadingNews

loadMoreNews(c, st, now) ==
    IF LoadMoreGuard(c)
    THEN [st |-> st, req |-> <<>>, how |-> "guarded"]
    ELSE fetchNews(c, st, c.activeSection, c.currentPage + 1, FALSE, now)

\* An observer callback that goes to the fetch by a path of its own.
ObserverCallbackUnguarded(o, st, isIntersecting, now) ==
    IF isIntersecting
    THEN fetchNews(o.loadMoreNews, st, o.loadMoreNews.activeSection,
                   o.loadMoreNews.currentPage + 1, FALSE, now)
    ELSE [st |-> st, req |-> <<>>, how |-> "idle"]

\* The IntersectionObserver callback of observer o, told isIntersecting.
ObserverCallback(o, st, isIntersecting, now) ==
    IF isIntersecting /\ o.hasMoreNews /\ ~o.isLoadingMore /\ ~o.isLoadingNews
    THEN loadMoreNews(o.loadMoreNews, st, now)
    ELSE [st |-> st, req |-> <<>>, how |-> "idle"]

\* What the awaited call gives fetchNews: an array, an exception, or a JSON
\* object that is no array (the "for-you" branch reads response.json() without
\* looking at the status; handleResponse throws on a non-2xx status).
handleResponse(resp) ==
    CASE resp = "reject" -> "throw"
      [] resp = "http_error" -> "throw"
      [] resp = "not_array" -> "object"
      [] OTHER -> "array"

Awaited(r, resp) ==
    IF r.section = "for-you"
    THEN CASE resp = "reject" -> "throw"
           [] resp \in {"http_error", "not_array"} -> "object"
           [] OTHER -> "array"
    ELSE handleResponse(resp)

NewsData(r, resp) == IF resp = "items" THEN RemoteBatch(r.section, r.page) ELSE <<>>

fallbackNews(section) ==
    SelectSeq(mockNews, LAMBDA item : section = "for-you" \/ item.section = section)

\* A try block that appends the batch of an initial fetch too.
AbsorbArrayAppends(st, r, newsData) ==
    IF Len(newsData) = 0
    THEN [st EXCEPT !.hasMoreNews = FALSE]
    ELSE [st EXCEPT !.news = st.news \o newsData,
                    !.currentPage = r.page,
                    !.lastFetchTime = Spread(@, Key(r.section, r.page), r.now)]

\* A try block that takes an empty batch for a page like any other.
AbsorbArrayNeverExhausts(st, r, newsData) ==
    [st EXCEPT !.news = IF r.isInitial THEN newsData ELSE st.news \o newsData,
               !.currentPage = r.page,
               !.lastFetchTime = Spread(@, Key(r.section, r.page), r.now)]

\* A try block that takes a batch as the sign that the feed has more.
AbsorbArrayRestoresMore(st, r, newsData) ==
    IF Len(newsData) = 0
    THEN [st EXCEPT !.hasMoreNews = FALSE]
    ELSE [st EXCEPT !.news = IF r.isInitial THEN newsData ELSE st.news \o newsData,
                    !.currentPage = r.page,
                    !.hasMoreNews = TRUE,
                    !.lastFetchTime = Spread(@, Key(r.section, r.page), r.now)]

\* App.tsx 161-169: the try block after the await, newsData being an array.
AbsorbArray(st, r, newsData) ==
    IF Len(newsData) = 0
    THEN [st EXCEPT !.hasMoreNews = FALSE]
    ELSE [st EXCEPT !.news = IF r.isInitial THEN newsData ELSE st.news \o newsData,
                    !.currentPage = r.page,
                    !.lastFetchTime = Spread(@, Key(r.section, r.page), r.now)]

\* A catch block that leaves hasMoreNews as it is.
AbsorbFailureKeepsMore(st, r) ==
    LET s1 == [st EXCEPT !.error = FallbackMsg]
    IN IF r.isInitial THEN [s1 EXCEPT !.news = fallbackNews(r.section)] ELSE s1

\* A catch block that shows the fallback content whatever the fetch was.
AbsorbFailureAlwaysFallback(st, r) ==
    [st EXCEPT !.error = FallbackMsg, !.news = fallbackNews(r.section),
               !.hasMoreNews = FALSE]

\* App.tsx 170-178: the catch block.
AbsorbFailure(st, r) ==
    LET s1 == [st EXCEPT !.error = FallbackMsg]
    IN IF r.isInitial
       THEN [s1 EXCEPT !.news = fallbackNews(r.section), !.hasMoreNews = FALSE]
       ELSE s1

\* A fetchNews without its finally block.
AbsorbNoFinally(st, r, resp) ==
    IF Awaited(r, resp) = "throw"
    THEN AbsorbFailure(st, r)
    ELSE AbsorbArray(st, r, NewsData(r, resp))

\* fetchNews from its await to its end (finally included), for request r
\* answered resp, on cells st.
Absorb(st, r, resp) ==
    LET s1 == IF Awaited(r, resp) = "throw"
              THEN AbsorbFailure(st, r)
              ELSE AbsorbArray(st, r, NewsData(r, resp))
    IN SetLoading(s1, r.isInitial, FALSE)

\* --------------------------------------------------------------- modals
NoNews == <<>>                       \* selectedNewsId === null, newsId === ''

DetailedMsg == "Failed to load detailed news. Please try again."

\* text chunks of one article that the model follows
MaxChunks == 2

\* ChatModal as it is mounted.
ChatCells == [messages |-> <<>>, error |-> NoError, showFAQs |-> TRUE, faqs |-> "defaultFAQs"]

\* DetailedNewsModal is in the tree only while selectedDetailedNewsId is set.
DetailedUnmounted ==
    [mounted |-> FALSE, hasFetchedRef |-> FALSE, isLoading |-> FALSE,
     content |-> 0, error |-> NoError]

\* The backdrop of an open modal (fixed inset-0 z-50) covers the page.
NoOverlay == ~isChatOpen /\ ~isDetailedModalOpen

\* A request of a modal: its path, the news_id or newsId of its query, the
\* identity of the user (sent as user_id by the detailed view), and whether the
\* component that awaits it is still mounted.
ModalRequest(url, newsId, uid) ==
    [url |-> url, newsId |-> newsId, userId |-> uid, mounted |-> TRUE]

\* The components that await them are unmounted.
Orphaned(reqs, url) ==
    [i \in 1..Len(reqs) |->
        IF reqs[i].url = url THEN [reqs[i] EXCEPT !.mounted = FALSE] ELSE reqs[i]]

\* What ChatModal returns: nothing, the notice, or the chat.
ChatView(isOpen, uid) ==
    IF ~isOpen THEN "null"
    ELSE IF StartsWithGuest(uid) THEN "Access Restricted"
    ELSE "chat"

\* What DetailedNewsModal returns: nothing, the notice, or the article.
DetailedView(isOpen, uid) ==
    IF ~isOpen THEN "null"
    ELSE IF StartsWithGuest(uid) THEN "Unlock Full Article"
    ELSE "article"

\* The effect of ChatModal on [isOpen, userId]: initializeChat and loadFAQs.
ChatEffect(isOpen, uid, newsId, ch) ==
    IF isOpen /\ uid # NoUser
    THEN [st |-> [ch EXCEPT !.messages = <<"welcome">>, !.error = NoError,
                            !.showFAQs = TRUE],
          req |-> <<ModalRequest("/api/chat/faqs", newsId, uid)>>]
    ELSE [st |-> ch, req |-> <<>>]

\* The effect of DetailedNewsModal on [isOpen, newsId] and the fetchDetailedNews
\* it calls, as far as its fetchEventSource.
DetailedEffect(isOpen, uid, newsId, d) ==
    IF isOpen /\ newsId # NoNews /\ ~d.hasFetchedRef
    THEN [st |-> [d EXCEPT !.hasFetchedRef = TRUE, !.content = 0, !.error = NoError,
                           !.isLoading = TRUE],
          req |-> <<ModalRequest("/api/news/detailed", newsId, uid)>>]
    ELSE [st |-> d, req |-> <<>>]

\* ----------------------------------------------------------- one step
PaginationState(st) ==
    [items |-> st.news, cursor |-> st.currentPage, exhausted |-> ~st.hasMoreNews,
     isInitialLoading |-> st.isLoadingNews, isLoadingMore |-> st.isLoadingMore,
     lastError |-> st.error]

\* What the last handler did: how its fetchNews ended ("network", "suppressed",
\* "forbidden"), that loadMoreNews returned at its guard ("guarded"), that the
\* observer callback did not call it ("idle", "unobserved"), that no fetchNews ran
\* ("none"), or what a response was absorbed as; and whether the fetch was initial.
Op(how, isInitial) == [how |-> how, isInitial |-> isInitial]

\* An effect that depends on userId alone.
EffectFiresOnUserOnly(st) == st.userId # NoUser /\ st.userId # userId

\* The useEffect on [activeSection, userId] runs after a render that changed one.
EffectFires(st) ==
    /\ st.userId # NoUser
    /\ st.activeSection # activeSection \/ st.userId # userId

\* The renders and effects that follow a handler which left the cells at st1:
\* the render of st1 and, if the effect fires, resetAndFetchNews and its render.
AfterHandler(r0, st1, now) ==
    LET r1 == Render(r0, st1)
        f  == resetAndFetchNews(Closure(st1), st1, st1.activeSection, now)
    IN IF EffectFires(st1)
       THEN [st |-> f.st, r |-> Render(r1, f.st), req |-> f.req, how |-> f.how]
       ELSE [st |-> st1, r |-> r1, req |-> <<>>, how |-> "none"]

\* A run of resetAndFetchNews that ended: its feed, its answer, the state it left.
Run(section, uid, resp, st) ==
    [section |-> section, userId |-> uid, resp |-> resp, final |-> PaginationState(st)]

\* No load-more fetch has ended yet.
NoAttempt == [k \in {} |-> 0]

\* A resetAndFetchNews that ended without asking the remote.
Unasked(how) == how \in {"suppressed", "forbidden"}

Push(rs, run) == (IF Len(rs) = 2 THEN Tail(rs) ELSE rs) \o <<run>>

Commit(a, req) ==
    /\ SetCells(a.st)
    /\ SetRendered(a.r)
    /\ inflight' = inflight \o req
    /\ calls' = calls - Len(req)
    /\ calls' >= 0
    /\ UNCHANGED attempted

\* The readings Date.now() gives in a run: an instant and a later one outside the
\* dedup window of the first. Two reads of the same instant are inside the window.
Times == {DedupWindowMs, 3 * DedupWindowMs}

Later == {t \in Times : t >= clock}

\* fetchNews ran as far as its Date.now().
ReadsClock(how) == how \in {"suppressed", "forbidden", "network"}

handleSectionChange(section, now) ==
    LET a == AfterHandler(Rendered, [S EXCEPT !.activeSection = section], now)
    IN /\ ~crashed /\ userId # NoUser /\ NoOverlay
       /\ Commit(a, a.req)
       /\ UNCHANGED modalVars
       /\ lastOp' = Op(a.how, TRUE)
       /\ emptySeen' = (emptySeen /\ section = activeSection)
       /\ runs' = IF section = activeSection THEN runs
                  ELSE IF Unasked(a.how) /\ inflight = <<>>
                  THEN <<Run(section, userId, "unasked", a.st)>>
                  ELSE <<>>
       /\ clock' = IF ReadsClock(a.how) THEN now ELSE clock
       /\ UNCHANGED crashed

handleRefresh(now) ==
    LET f == resetAndFetchNews(Closure(S), S, activeSection, now)
        a == [st |-> f.st, r |-> Render(Rendered, f.st)]
    IN /\ ~crashed /\ userId # NoUser /\ ~isLoadingNews /\ NoOverlay
       /\ Commit(a, f.req)
       /\ UNCHANGED modalVars
       /\ lastOp' = Op(f.how, TRUE)
       /\ emptySeen' = FALSE
       /\ runs' = IF inflight # <<>> THEN <<>>
                  ELSE IF Unasked(f.how)
                  THEN Push(runs, Run(activeSection, userId, "unasked", f.st))
                  ELSE runs
       /\ clock' = now
       /\ UNCHANGED crashed

handleLogout ==
    LET a == AfterHandler(Rendered, [S EXCEPT !.userId = NoUser, !.news = <<>>,
                                              !.activeSection = "for-you",
                                              !.error = NoError], clock)
    IN /\ ~crashed /\ userId # NoUser /\ NoOverlay
       /\ Commit(a, a.req)
       /\ isChatOpen' = FALSE
       /\ selectedNewsId' = NoNews
       /\ chat' = ChatCells          \* the sign-in page replaces the tree
       /\ streams' = Orphaned(streams, "/api/chat/faqs")
       /\ UNCHANGED <<isDetailedModalOpen, selectedDetailedNewsId, detailed>>
       /\ lastOp' = Op(a.how, TRUE)
       /\ emptySeen' = FALSE
       /\ runs' = <<>>
       /\ UNCHANGED <<clock, crashed>>

handleGuestAuth(now) ==
    LET a == AfterHandler(Rendered, [S EXCEPT !.userId = GuestUser(now)], now)
    IN /\ ~crashed /\ userId = NoUser /\ ~isLoading
       /\ Commit(a, a.req)
       /\ UNCHANGED modalVars
       /\ lastOp' = Op(a.how, TRUE)
       /\ emptySeen' = FALSE
       /\ runs' = IF Unasked(a.how) /\ inflight = <<>>
                  THEN <<Run(a.st.activeSection, a.st.userId, "unasked", a.st)>>
                  ELSE <<>>
       /\ clock' = now
       /\ UNCHANGED crashed

\* handleGoogleAuth up to its await.
handleGoogleAuth ==
    LET a == AfterHandler(Rendered, [S EXCEPT !.isLoading = TRUE, !.error = NoError], clock)
    IN /\ ~crashed /\ userId = NoUser /\ ~isLoading
       /\ SetCells(a.st)
       /\ SetRendered(a.r)
       /\ calls > 0
       /\ calls' = calls - 1
       /\ lastOp' = Op(a.how, TRUE)
       /\ runs' = <<>>
       /\ UNCHANGED <<inflight, clock, crashed, emptySeen, attempted>>
       /\ UNCHANGED modalVars

\* handleGoogleAuth from its await on: the backend accepted the credential or not.
GoogleAuthSettled(ok, now) ==
    LET st1 == IF ok THEN [S EXCEPT !.userId = GoogleUser, !.isLoading = FALSE]
                     ELSE [S EXCEPT !.error = GoogleMsg, !.isLoading = FALSE]
        a == AfterHandler(Rendered, st1, now)
    IN /\ ~crashed /\ isLoading
       /\ Commit(a, a.req)
       /\ UNCHANGED modalVars
       /\ lastOp' = Op(a.how, TRUE)
       /\ emptySeen' = FALSE
       /\ runs' = <<>>
       /\ clock' = IF ReadsClock(a.how) THEN now ELSE clock
       /\ UNCHANGED crashed

\* A click on "Load More Stories".
LoadMoreClick(now) ==
    LET f == loadMoreNews(memoLoadMore, S, now)
        a == [st |-> f.st, r |-> Render(Rendered, f.st)]
    IN /\ ~crashed /\ LoadMoreButton(S) /\ NoOverlay
       /\ Commit(a, f.req)
       /\ UNCHANGED modalVars
       /\ lastOp' = Op(f.how, FALSE)
       /\ runs' = <<>>
       /\ clock' = IF ReadsClock(f.how) THEN now ELSE clock
       /\ UNCHANGED <<crashed, emptySeen>>

\* The observer delivers the notification it queued when it began to observe.
ObserverNotifies(now) ==
    LET f == ObserverCallback(observer, S, visible, now)
        a == [st |-> f.st, r |-> Render([Rendered EXCEPT !.pend = FALSE], f.st)]
    IN /\ ~crashed /\ ioPending
       /\ Commit(a, f.req)
       /\ UNCHANGED modalVars
       /\ lastOp' = Op(f.how, FALSE)
       /\ runs' = IF f.how = "idle" THEN runs ELSE <<>>
       /\ clock' = IF ReadsClock(f.how) THEN now ELSE clock
       /\ UNCHANGED <<crashed, emptySeen>>

\* The sentinel enters or leaves the viewport; an observer that watches it and
\* has nothing queued calls back at once.
Scroll(now) ==
    LET r0 == [Rendered EXCEPT !.vis = ~visible]
        f == IF observer.observing /\ ~ioPending
             THEN ObserverCallback(observer, S, ~visible, now)
             ELSE [st |-> S, req |-> <<>>, how |-> "unobserved"]
        a == [st |-> f.st, r |-> Render(r0, f.st)]
    IN /\ ~crashed /\ SentinelMounted(S)
       /\ Commit(a, f.req)
       /\ UNCHANGED modalVars
       /\ lastOp' = Op(f.how, FALSE)
       /\ runs' = IF f.how \in {"idle", "unobserved"} THEN runs ELSE <<>>
       /\ clock' = IF ReadsClock(f.how) THEN now ELSE clock
       /\ UNCHANGED <<crashed, emptySeen>>

InitCells(u) ==
    [userId |-> u, activeSection |-> "world", news |-> <<>>, isLoading |-> FALSE,
     isLoadingNews |-> FALSE, isLoadingMore |-> FALSE, error |-> NoError,
     hasMoreNews |-> TRUE, currentPage |-> 1,
     lastFetchTime |-> [k \in {} |-> 0]]

\* The first render of App and its effects, the stored user_id being u.
Mount(u) ==
    LET st0 == InitCells(u)
        r0 == [cb |-> Closure(st0), obs |-> NewObserver(Closure(st0), st0),
               vis |-> FALSE, pend |-> FALSE]
        f == resetAndFetchNews(Closure(st0), st0, st0.activeSection, DedupWindowMs)
    IN IF u = NoUser
       THEN [st |-> st0, r |-> r0, req |-> <<>>, how |-> "none"]
       ELSE [st |-> f.st, r |-> Render(r0, f.st), req |-> f.req, how |-> f.how]

\* What fetchNews makes of the response: "throw", "object", "empty" or "items".
Outcome(r, resp) == IF Awaited(r, resp) = "array" THEN resp ELSE Awaited(r, resp)

Without(seq, i) == SubSeq(seq, 1, i - 1) \o SubSeq(seq, i + 1, Len(seq))

\* The response to inflight[i] arrives and fetchNews runs to its end.
Resolve(i, resp) ==
    LET r == inflight[i]
        kind == Awaited(r, resp)
        st1 == Absorb(S, r, resp)
        a == [st |-> st1, r |-> Render(Rendered, st1)]
        clean == /\ r.isInitial /\ Len(inflight) = 1
                 /\ lastOp.how = "network"
                 /\ r.section = activeSection /\ r.userId = userId
    IN /\ ~crashed
       /\ i \in 1..Len(inflight)
       /\ lastOp' = Op(Outcome(r, resp), r.isInitial)
       /\ IF kind = "object"
          THEN \* news is no array, or the updater spreads what is not iterable:
               \* the next render throws, no error boundary catches it, React
               \* unmounts App and with it every cell; the responses still
               \* awaited find no component to update.
               /\ crashed' = TRUE
               /\ SetCells(InitCells(NoUser))
               /\ SetRendered(Mount(NoUser).r)
               /\ inflight' = <<>>
               /\ emptySeen' = FALSE
               /\ runs' = <<>>
               /\ attempted' = NoAttempt
               /\ isChatOpen' = FALSE /\ selectedNewsId' = NoNews
               /\ isDetailedModalOpen' = FALSE /\ selectedDetailedNewsId' = NoNews
               /\ chat' = ChatCells /\ detailed' = DetailedUnmounted
               /\ streams' = <<>>
          ELSE /\ UNCHANGED modalVars
               /\ SetCells(a.st)
               /\ SetRendered(a.r)
               /\ inflight' = Without(inflight, i)
               /\ crashed' = FALSE
               /\ emptySeen' = (emptySeen \/ (/\ kind = "array"
                                              /\ Len(NewsData(r, resp)) = 0
                                              /\ r.section = activeSection
                                              /\ r.userId = userId))
               /\ runs' = IF clean
                          THEN Push(runs, Run(r.section, r.userId, Outcome(r, resp), a.st))
                          ELSE <<>>
               /\ attempted' = IF r.isInitial THEN attempted
                               ELSE Spread(attempted, Key(r.section, r.page),
                                           [now |-> r.now, outcome |-> Outcome(r, resp)])
       /\ UNCHANGED <<clock, calls>>

\* The handlers of the two modals leave the feed alone; they count their
\* requests like every other.
ModalCommit(kept, req) ==
    /\ calls' = calls - Len(req)
    /\ calls' >= 0
    /\ streams' = kept \o req
    /\ lastOp' = Op("none", FALSE)
    /\ UNCHANGED feedVars

Shown == {filteredNews(S)[n].id : n \in 1..Len(filteredNews(S))}

\* The chat button of the header (no article) or of a card.
handleChatOpen(newsId) ==
    LET e == ChatEffect(TRUE, userId, newsId, chat)
    IN /\ ~crashed /\ userId # NoUser /\ NoOverlay
       /\ newsId \in Shown \cup {NoNews}
       /\ isChatOpen' = TRUE
       /\ selectedNewsId' = newsId
       /\ chat' = e.st
       /\ ModalCommit(streams, e.req)
       /\ UNCHANGED <<isDetailedModalOpen, selectedDetailedNewsId, detailed>>

\* The X of the chat (handleClose, then onClose), or the Close button or the
\* backdrop of the notice (onClose).
handleChatClose ==
    /\ ~crashed /\ isChatOpen
    /\ isChatOpen' = FALSE
    /\ selectedNewsId' = NoNews
    /\ chat' = IF ChatView(isChatOpen, userId) = "chat"
               THEN [chat EXCEPT !.messages = <<>>, !.error = NoError, !.showFAQs = TRUE]
               ELSE chat
    /\ ModalCommit(streams, <<>>)
    /\ UNCHANGED <<isDetailedModalOpen, selectedDetailedNewsId, detailed>>

\* "Detailed version" of a card: DetailedNewsModal is mounted and its effects run.
handleDetailedVersionClick(newsId) ==
    LET e == DetailedEffect(TRUE, userId, newsId, [DetailedUnmounted EXCEPT !.mounted = TRUE])
    IN /\ ~crashed /\ userId # NoUser /\ NoOverlay
       /\ newsId \in Shown
       /\ selectedDetailedNewsId' = newsId
       /\ isDetailedModalOpen' = TRUE
       /\ detailed' = e.st
       /\ ModalCommit(streams, e.req)
       /\ UNCHANGED <<isChatOpen, selectedNewsId, chat>>

\* DetailedNewsModal leaves the tree; nothing aborts its fetchEventSource.
handleDetailedModalClose ==
    /\ ~crashed /\ isDetailedModalOpen
    /\ isDetailedModalOpen' = FALSE
    /\ selectedDetailedNewsId' = NoNews
    /\ detailed' = DetailedUnmounted
    /\ ModalCommit(Orphaned(streams, "/api/news/detailed"), <<>>)
    /\ UNCHANGED <<isChatOpen, selectedNewsId, chat>>

\* onmessage of the event stream streams[i].
StreamMessage(i) ==
    /\ ~crashed
    /\ i \in 1..Len(streams)
    /\ streams[i].url = "/api/news/detailed" /\ streams[i].mounted
    /\ detailed.content < MaxChunks
    /\ detailed' = [detailed EXCEPT !.content = @ + 1, !.isLoading = FALSE]
    /\ ModalCommit(streams, <<>>)
    /\ UNCHANGED <<isChatOpen, selectedNewsId, chat, isDetailedModalOpen,
                   selectedDetailedNewsId>>

\* onerror of the event stream streams[i]: it returns nothing, so
\* fetchEventSource will connect again.
StreamError(i) ==
    /\ ~crashed
    /\ i \in 1..Len(streams)
    /\ streams[i].url = "/api/news/detailed" /\ streams[i].mounted
    /\ detailed' = [detailed EXCEPT !.error = DetailedMsg, !.isLoading = FALSE]
    /\ ModalCommit(streams, <<>>)
    /\ UNCHANGED <<isChatOpen, selectedNewsId, chat, isDetailedModalOpen,
                   selectedDetailedNewsId>>

\* onclose of the event stream streams[i].
StreamClose(i) ==
    /\ ~crashed
    /\ i \in 1..Len(streams)
    /\ streams[i].url = "/api/news/detailed"
    /\ detailed' = IF streams[i].mounted THEN [detailed EXCEPT !.isLoading = FALSE]
                   ELSE detailed
    /\ ModalCommit(Without(streams, i), <<>>)
    /\ UNCHANGED <<isChatOpen, selectedNewsId, chat, isDetailedModalOpen,
                   selectedDetailedNewsId>>

\* loadFAQs from its await on: the backend has the questions of the article
\* (ok) or the defaults are shown.
FaqsAnswered(i, ok) ==
    /\ ~crashed
    /\ i \in 1..Len(streams)
    /\ streams[i].url = "/api/chat/faqs"
    /\ chat' = IF streams[i].mounted
               THEN [chat EXCEPT !.faqs = IF ok THEN "backendFAQs" ELSE "defaultFAQs"]
               ELSE chat
    /\ ModalCommit(Without(streams, i), <<>>)
    /\ UNCHANGED <<isChatOpen, selectedNewsId, detailed, isDetailedModalOpen,
                   selectedDetailedNewsId>>

\* ----------------------------------------------------------------- Init
\* App mounted with the stored user_id u, n requests allowed after that.
Mounted(u, n) ==
        LET m == Mount(u)
        IN /\ userId = m.st.userId
           /\ activeSection = m.st.activeSection
           /\ news = m.st.news
           /\ isLoading = m.st.isLoading
           /\ isLoadingNews = m.st.isLoadingNews
           /\ isLoadingMore = m.st.isLoadingMore
           /\ error = m.st.error
           /\ hasMoreNews = m.st.hasMoreNews
           /\ currentPage = m.st.currentPage
           /\ lastFetchTime = m.st.lastFetchTime
           /\ memoLoadMore = m.r.cb
           /\ observer = m.r.obs
           /\ visible = m.r.vis
           /\ ioPending = m.r.pend
           /\ inflight = m.req
           /\ clock = DedupWindowMs
           /\ crashed = FALSE
           /\ calls = n
           /\ lastOp = Op(m.how, TRUE)
           /\ emptySeen = FALSE
           /\ runs = <<>>
           /\ attempted = NoAttempt
           /\ isChatOpen = FALSE /\ selectedNewsId = NoNews
           /\ isDetailedModalOpen = FALSE /\ selectedDetailedNewsId = NoNews
           /\ chat = ChatCells /\ detailed = DetailedUnmounted
           /\ streams = <<>>

Init == \E u \in {NoUser, GoogleUser} : Mounted(u, MaxCalls)   \* useLocalStorage('user_id', null)

Next ==
    \/ \E section \in Visited, now \in Later : handleSectionChange(section, now)
    \/ \E now \in Later : handleRefresh(now)
    \/ handleLogout
    \/ \E now \in Later : handleGuestAuth(now)
    \/ handleGoogleAuth
    \/ \E ok \in BOOLEAN, now \in Later : GoogleAuthSettled(ok, now)
    \/ \E now \in Later : LoadMoreClick(now)
    \/ \E now \in Later : ObserverNotifies(now)
    \/ \E now \in Later : Scroll(now)
    \/ \E i \in 1..Len(inflight), resp \in Responses : Resolve(i, resp)

Spec == Init /\ [][Next]_vars

\* One session of a user who stays signed in and reads on while the remote
\* answers with arrays: the sections, the sentinel, the button, the responses.
SessionInit == Mounted(GoogleUser, MaxSessionCalls)

SessionNext ==
    \/ \E section \in Visited, now \in Later : handleSectionChange(section, now)
    \/ \E now \in Later : LoadMoreClick(now)
    \/ \E now \in Later : ObserverNotifies(now)
    \/ \E now \in Later : Scroll(now)
    \/ \E i \in 1..Len(inflight), resp \in {"items", "empty"} : Resolve(i, resp)

SessionSpec == SessionInit /\ [][SessionNext]_vars

\* One session of a signed-in reader who scrolls and refreshes and never presses
\* the button: every load-more request comes from the observer callback. The
\* remote answers with a batch, with an empty batch or not at all.
ScrollNext ==
    \/ \E now \in Later : handleRefresh(now)
    \/ \E now \in Later : ObserverNotifies(now)
    \/ \E now \in Later : Scroll(now)
    \/ \E i \in 1..Len(inflight), resp \in {"items", "empty", "reject"} : Resolve(i, resp)

ScrollSpec == SessionInit /\ [][ScrollNext]_vars

\* A stored user, guest or not, who reads the articles and opens the chat:
\* the feed answers, the two modals, their requests.
ModalInit == \E u \in {GuestUser(DedupWindowMs), GoogleUser} : Mounted(u, MaxCalls)

ModalNext ==
    \/ \E i \in 1..Len(inflight), resp \in {"items", "empty"} : Resolve(i, resp)
    \/ \E newsId \in Shown \cup {NoNews} : handleChatOpen(newsId)
    \/ handleChatClose
    \/ \E newsId \in Shown : handleDetailedVersionClick(newsId)
    \/ handleDetailedModalClose
    \/ \E i \in 1..Len(streams) : StreamMessage(i)
    \/ \E i \in 1..Len(streams) : StreamError(i)
    \/ \E i \in 1..Len(streams) : StreamClose(i)
    \/ \E i \in 1..Len(streams), ok \in BOOLEAN : FaqsAnswered(i, ok)

ModalSpec == ModalInit /\ [][ModalNext]_vars

\* ------------------------------------------------------------ properties
\* The step is the end of the awaited fetch inflight[i], App staying mounted.
Resolved(i) ==
    /\ i \in 1..Len(inflight)
    /\ inflight' = Without(inflight, i)
    /\ ~crashed'

\* The step sent a request, Newest.
Issued == Len(inflight') = Len(inflight) + 1

Newest == inflight'[Len(inflight')]

\* The step ran resetAndFetchNews as far as its fetchNews went without awaiting.
ResetRan == lastOp'.isInitial /\ lastOp'.how \in {"network", "suppressed", "forbidden"}

LoadMoreInFlight == {i \in 1..Len(inflight) : ~inflight[i].isInitial}

\* C1: a response to a fetch issued for a section that is no longer the selected
\* one is discarded: items, cursor, exhausted and lastError stay as they were.
C1_StaleResponseDiscarded ==
    [][\A i \in 1..Len(inflight) :
          Resolved(i) /\ inflight[i].section # activeSection
          => UNCHANGED <<news, currentPage, hasMoreNews, error>>]_vars

\* C2: at most one load-more fetch is in flight in every reachable state, so a
\* loadNext invoked while one is pending makes no second network call.
C2_OneLoadMoreInFlight == Cardinality(LoadMoreInFlight) <= 1

\* The sentinel was reported intersecting while a load-more fetch was pending,
\* nothing else kept loadNext from running, and no request was sent.
C2_SecondLoadNextIdle ==
    /\ lastOp = Op("idle", FALSE)
    /\ visible /\ hasMoreNews /\ ~isLoadingNews
    /\ Cardinality(LoadMoreInFlight) = 1

\* C3: an initial fetch and a load-more fetch of one feed key (section and
\* identity) are never in flight together.
C3_ResetAndLoadMoreExclusive ==
    \A i, j \in 1..Len(inflight) :
        inflight[i].isInitial /\ ~inflight[j].isInitial
        => \/ inflight[i].section # inflight[j].section
           \/ inflight[i].userId # inflight[j].userId

\* C4: once an empty batch came back for the selected feed, no step sends a
\* load-more request until resetAndFetchNews has run again.
C4_ExhaustionTerminal == [][emptySeen => ~(Issued /\ ~Newest.isInitial)]_vars

\* After the empty batch the sentinel was reported intersecting with nothing in
\* flight, and no request was sent.
C4_SentinelAfterExhaustion ==
    /\ emptySeen
    /\ lastOp = Op("idle", FALSE)
    /\ visible /\ ~isLoadingMore /\ ~isLoadingNews
    /\ inflight = <<>>

\* C5: resetAndFetchNews for a guest_ identity on "for-you" sends no request and
\* ends with no items, hasMoreNews false, the advisory message and
\* isLoadingNews false.
C5_GuestShortCircuit ==
    [][ResetRan /\ StartsWithGuest(userId') /\ activeSection' = "for-you"
       => /\ inflight' = inflight
          /\ calls' = calls
          /\ news' = <<>>
          /\ ~hasMoreNews'
          /\ error' = GuestMsg
          /\ ~isLoadingNews']_vars

C5_GuestResetRan ==
    /\ lastOp = Op("forbidden", TRUE)
    /\ StartsWithGuest(userId) /\ activeSection = "for-you"
    /\ error = GuestMsg

\* C6: a failed page-1 fetch leaves a non-empty list of local items, all of the
\* requested section (any section for "for-you").
C6_FallbackNonEmpty ==
    [][\A i \in 1..Len(inflight) :
          Resolved(i) /\ inflight[i].isInitial /\ lastOp'.how = "throw"
          => /\ Len(news') > 0
             /\ \A n \in 1..Len(news') :
                   \/ inflight[i].section = "for-you"
                   \/ news'[n].section = inflight[i].section]_vars

\* C7: a failed load-more fetch leaves items, cursor, exhausted and the fetch
\* times as they were, sets the error and clears isLoadingMore, so that nothing
\* it did keeps a later loadNext from the network.
C7_LoadMoreFailureKeepsState ==
    [][\A i \in 1..Len(inflight) :
          Resolved(i) /\ ~inflight[i].isInitial /\ lastOp'.how = "throw"
          => /\ UNCHANGED <<news, currentPage, hasMoreNews, lastFetchTime>>
             /\ error' = FallbackMsg
             /\ ~isLoadingMore']_vars

\* A load-more fetch is in flight for a page whose last load-more fetch failed,
\* the items loaded before still in the list.
C7_RetryInFlight ==
    /\ news # <<>>
    /\ \E i \in LoadMoreInFlight :
          LET key == Key(inflight[i].section, inflight[i].page)
          IN key \in DOMAIN attempted /\ attempted[key].outcome = "throw"

\* C8: a load-more request for a (section, page) whose last load-more fetch has
\* ended is sent only if that fetch was issued DedupWindowMs or more before;
\* and loadNext is suppressed only if a load-more fetch was issued within the
\* window.
C8_DedupWindow ==
    [][/\ (Issued /\ ~Newest.isInitial
             /\ Key(Newest.section, Newest.page) \in DOMAIN attempted)
          => Newest.now - attempted[Key(Newest.section, Newest.page)].now >= DedupWindowMs
       /\ lastOp' = Op("suppressed", FALSE)
          => \E k \in DOMAIN attempted : clock' - attempted[k].now < DedupWindowMs]_vars

\* C9: resetAndFetchNews for a feed that is not the guest's "for-you" sends a
\* page-1 request, whatever lastFetchTime holds.
C9_InitialBypassesDedup ==
    [][ResetRan /\ ~(StartsWithGuest(userId') /\ activeSection' = "for-you")
       => /\ Issued
          /\ Newest.isInitial /\ Newest.page = 1 /\ Newest.section = activeSection'
          /\ calls' = calls - 1]_vars

\* A reset went to the network although page 1 of the section was fetched less
\* than DedupWindowMs before.
C9_ResetInsideWindow ==
    /\ lastOp = Op("network", TRUE)
    /\ Key(activeSection, 1) \in DOMAIN lastFetchTime
    /\ clock - lastFetchTime[Key(activeSection, 1)] < DedupWindowMs

\* Two runs of resetAndFetchNews for one feed, the second started when the first
\* had ended and nothing was in flight, the remote answering the second as it
\* answered the first (or not being asked).
SameResetTwice ==
    /\ Len(runs) = 2
    /\ runs[1].section = runs[2].section
    /\ runs[1].userId = runs[2].userId
    /\ runs[2].resp \in {runs[1].resp, "unasked"}

\* C10: the PaginationState after the second of two such runs is the one after
\* the first.
C10_IdempotentReset == SameResetTwice => runs[1].final = runs[2].final

C10_TwoRunsSameBatch == SameResetTwice /\ runs[2].resp = "items"

\* The step is the end of an awaited fetch (App unmounted by it or not).
FetchEnded == Len(inflight') < Len(inflight)

\* C11: the end of an initial fetch, and a reset that returns at the guest
\* test, leave isLoadingNews false; the end of a load-more fetch, and a loadNext
\* that returns at the dedup test, leave isLoadingMore false; with nothing in
\* flight both flags are false.
C11_FlagsCleared ==
    [][/\ \A i \in 1..Len(inflight) :
             Resolved(i) => IF inflight[i].isInitial THEN ~isLoadingNews'
                                                     ELSE ~isLoadingMore'
       /\ lastOp' = Op("forbidden", TRUE) => ~isLoadingNews'
       /\ lastOp' = Op("suppressed", FALSE) => ~isLoadingMore'
       /\ (inflight' = <<>> /\ ~crashed') => (~isLoadingNews' /\ ~isLoadingMore')]_vars

\* The last fetch in flight has ended for a signed-in user and both flags are
\* down.
C11_AllSettled ==
    /\ lastOp.how \in {"items", "empty", "throw"}
    /\ inflight = <<>> /\ userId # NoUser
    /\ ~isLoadingNews /\ ~isLoadingMore

\* C12: a fetch that fails (it rejects, its status is not 2xx, its body is no
\* array) never takes App down, and ends with the error set.
C12_FailureEndsInError ==
    [][/\ crashed' = crashed
       /\ (FetchEnded /\ lastOp'.how \in {"throw", "object"}) => error' # NoError]_vars

\* C13: the end of a fetch answered with a non-2xx status or with a body that is
\* no array is handled as a failure in every section: the error is set, the list
\* is the fallback list after an initial fetch and is left alone after a
\* load-more fetch.
C13_MalformedIsFailure ==
    [][\A i \in 1..Len(inflight) :
          (FetchEnded /\ lastOp'.how \notin {"items", "empty"}
             /\ (Resolved(i) \/ crashed'))
          => /\ Resolved(i)
             /\ error' = FallbackMsg
             /\ news' = IF inflight[i].isInitial THEN fallbackNews(inflight[i].section)
                        ELSE news]_vars

\* The step is a section chosen by a signed-in user who stays signed in.
SectionSwitched == activeSection' # activeSection /\ userId # NoUser /\ userId' = userId

\* C14: choosing the selected section again changes no cell and sends nothing;
\* choosing another one does what resetAndFetchNews does for it: the list is
\* emptied, the page is 1, and a page-1 request for the section is sent (for the
\* guest on "for-you": none, the advisory shown).
C14_SelectFeed ==
    [][/\ (lastOp' = Op("none", TRUE) /\ userId # NoUser /\ userId' = userId)
          => UNCHANGED <<cells, inflight, calls>>
       /\ SectionSwitched
          => /\ news' = <<>> /\ currentPage' = 1
             /\ IF StartsWithGuest(userId) /\ activeSection' = "for-you"
                THEN inflight' = inflight /\ ~hasMoreNews' /\ error' = GuestMsg
                ELSE /\ Issued
                     /\ Newest = [section |-> activeSection', page |-> 1,
                                  isInitial |-> TRUE, now |-> clock', userId |-> userId]
                     /\ hasMoreNews' /\ isLoadingNews' /\ error' = NoError]_vars

\* The selected section was chosen again while its items were shown.
C14_SameSectionChosen ==
    /\ lastOp = Op("none", TRUE)
    /\ userId # NoUser /\ news # <<>>

\* C15: no two items of the list have the same id.
C15_UniqueIds == \A i, j \in 1..Len(news) : news[i].id = news[j].id => i = j

\* C16: currentPage is at least 1, and it goes down only in a step that runs
\* resetAndFetchNews, never at the end of a fetch.
C16_CursorMonotone ==
    [][/\ currentPage' >= 1
       /\ (currentPage' < currentPage /\ ~crashed') => ResetRan]_vars

C18_LoadNextAppends ==
    [][\A i \in 1..Len(inflight) :
          (Resolved(i) /\ ~inflight[i].isInitial /\ lastOp'.how = "items")
          => /\ news' = news \o RemoteBatch(inflight[i].section, inflight[i].page)
             /\ currentPage' = inflight[i].page
             /\ (lastOp = Op("network", FALSE)) => currentPage' = currentPage + 1]_vars

\* C19: a load-more request is sent only in a state where hasMoreNews is true
\* and neither flag is up; a trigger that finds it otherwise changes no cell and
\* sends nothing.
C19_GuardedLoadNext ==
    [][/\ (Issued /\ ~Newest.isInitial)
          => (hasMoreNews /\ ~isLoadingMore /\ ~isLoadingNews)
       /\ lastOp'.how \in {"idle", "guarded"}
          => UNCHANGED <<cells, inflight, calls>>]_vars

\* The sentinel was reported intersecting in a state the guard refuses.
C19_TriggerRefused ==
    /\ lastOp = Op("idle", FALSE)
    /\ visible
    /\ LoadMoreGuard(Closure(S))

\* C20: the end of a failed initial fetch leaves hasMoreNews false, the error
\* set and isLoadingNews false; and while hasMoreNews is false, a step that does
\* not run resetAndFetchNews leaves it false and sends no load-more request.
C20_FailedInitialTerminal ==
    [][/\ \A i \in 1..Len(inflight) :
             (Resolved(i) /\ inflight[i].isInitial /\ lastOp'.how = "throw")
             => (~hasMoreNews' /\ error' = FallbackMsg /\ ~isLoadingNews')
       /\ (~hasMoreNews /\ ~ResetRan /\ ~crashed')
          => (~hasMoreNews' /\ ~(Issued /\ ~Newest.isInitial))]_vars

\* The fallback list is shown after a failed initial fetch, the sentinel was
\* reported intersecting, and nothing was sent.
C20_SentinelAfterFallback ==
    /\ lastOp = Op("idle", FALSE)
    /\ visible /\ inflight = <<>>
    /\ error = FallbackMsg /\ ~hasMoreNews
    /\ news # <<>> /\ news = fallbackNews(activeSection)

\* C21: hasMoreNews goes from false to true only in a step that runs
\* resetAndFetchNews: the end of a fetch, late or not, and a loadMoreNews leave a
\* false hasMoreNews false.
C21_OnlyResetClearsExhausted ==
    [][(~hasMoreNews /\ hasMoreNews' /\ ~crashed') => ResetRan]_vars

\* The batch of an earlier request was absorbed after the feed had been found
\* exhausted, and hasMoreNews is false still.
C21_LateBatchAbsorbed ==
    /\ lastOp.how = "items"
    /\ ~hasMoreNews /\ news # <<>>

\* C22: a loadMoreNews that returns at the dedup test sends no request and
\* leaves the list, the page, hasMoreNews and the error as they were.
C22_SuppressedIsNoOp ==
    [][lastOp' = Op("suppressed", FALSE)
       => UNCHANGED <<news, currentPage, hasMoreNews, error, inflight, calls>>]_vars

\* C23: for every (section, page) of which a load-more fetch has ended, with a
\* batch, with an empty batch or with a failure, lastFetchTime holds the time
\* at which the last such fetch was issued.
C23_CacheRecordsEveryAttempt ==
    \A k \in DOMAIN attempted :
        /\ k \in DOMAIN lastFetchTime
        /\ lastFetchTime[k] = attempted[k].now

\* The step called loadMoreNews.
LoadNextInvoked == ~lastOp'.isInitial /\ lastOp'.how \in {"network", "suppressed", "guarded"}

\* C24: loadMoreNews is called by the observer when the sentinel comes into
\* view, not because a load-more fetch ended: the step that follows the end of a
\* load-more fetch, the sentinel intersecting before and after it, does not call
\* loadMoreNews.
C24_EdgeTriggered ==
    [][(/\ ~lastOp.isInitial /\ lastOp.how \in {"items", "empty", "throw"}
        /\ visible /\ visible')
       => ~LoadNextInvoked]_vars

\* C25: from the step in which resetAndFetchNews sent its page-1 request until
\* the next step, the list is empty, the page is 1, hasMoreNews and isLoadingNews
\* are true and the error is null.
C25_StateAfterReset ==
    lastOp = Op("network", TRUE)
    => /\ news = <<>> /\ currentPage = 1
       /\ hasMoreNews /\ isLoadingNews
       /\ error = NoError

\* Refresh was pressed while the fallback list of a failed load was shown, with
\* its error and hasMoreNews false, and its page-1 request is in flight.
C25_ResetOverFallback ==
    /\ lastOp = Op("network", TRUE)
    /\ Len(inflight) = 1
    /\ runs # <<>>
    /\ LET before == runs[Len(runs)].final
       IN before.items # <<>> /\ before.exhausted /\ before.lastError # NoError

\* C26: the first loadMoreNews after a resetAndFetchNews that has ended (no
\* load-more of the new list attempted yet) does not return at the dedup test.
C26_FreshPageNotSuppressed ==
    [][runs # <<>> => lastOp' # Op("suppressed", FALSE)]_vars

\* The batches of pages 1..n of a section, in order.
RECURSIVE FirstPages(_, _)
FirstPages(section, n) ==
    IF n = 0 THEN <<>> ELSE FirstPages(section, n - 1) \o RemoteBatch(section, n)

\* C27: when the batch of page p of a section is appended at the end of a
\* load-more fetch, the list is made of the batches of pages 1..p-1 of that
\* section, in order: no page is skipped, none is merged twice.
C27_PagesInOrder ==
    [][\A i \in 1..Len(inflight) :
          (Resolved(i) /\ ~inflight[i].isInitial /\ lastOp'.how = "items")
          => news = FirstPages(inflight[i].section, inflight[i].page - 1)]_vars

\* C28: isLoadingNews is true in every state in which the initial fetch of the
\* selected section for the signed-in user is in flight, also when it began
\* before an earlier initial fetch had ended.
C28_InitialLoadingWhilePending ==
    (\E i \in 1..Len(inflight) :
        /\ inflight[i].isInitial
        /\ inflight[i].section = activeSection
        /\ inflight[i].userId = userId)
    => isLoadingNews

\* C29: while nobody is signed in the list is empty, and the end of a fetch that
\* was in flight at the logout leaves the list, the page and the error as they
\* were.
C29_LogoutKeepsListEmpty ==
    [][/\ userId' = NoUser => news' = <<>>
       /\ \A i \in 1..Len(inflight) :
             (Resolved(i) /\ userId = NoUser)
             => UNCHANGED <<news, currentPage, error>>]_vars

\* The step opened the chat or the detailed view.
ModalOpened ==
    \/ ~isChatOpen /\ isChatOpen'
    \/ ~isDetailedModalOpen /\ isDetailedModalOpen'

\* C30: when a guest_ user opens the detailed view or the chat, the modal
\* returns the notice only and no request is sent.
C30_GuestModalsSilent ==
    [][(ModalOpened /\ StartsWithGuest(userId))
       => /\ isChatOpen' => ChatView(isChatOpen', userId') = "Access Restricted"
          /\ isDetailedModalOpen'
                => DetailedView(isDetailedModalOpen', userId') = "Unlock Full Article"
          /\ streams' = streams
          /\ calls' = calls]_vars

====
